---- MODULE Spec2Model ----
(***************************************************************************)
(* A model of the evolutionary engine GeneticAlgorithm                     *)
(* (src/genetic_algorithm.py) running over allocation candidates           *)
(* (Portfolio, exercised by src/test/test_portfolio.py).                   *)
(*                                                                         *)
(* Candidates are objects with identity: `heap` holds the raw weights of   *)
(* every object ever created and populations are sequences of object ids,  *)
(* so that two slots of a population (or `best`) may alias one object.     *)
(* Raw weights are counted in steps of 0.1, rates in halves.               *)
(***************************************************************************)
EXTENDS Integers, Sequences, FiniteSets, TLC

\* ------------------------------------------------------------- bounds
MaxPop == 2
MaxGen == 2
MaxWeight == 1
MaxK == 3

\* ---------------------------------------------------- program constants
NAssets == 2
Competitors == 3
\* the candidates a direct use of Portfolio works with (portfolio1, portfolio2)
NPortfolios == 2
EliteDivisor == 10

Assets == 1..NAssets
\* a rate in [0, 1], in halves: 0.0, 0.5, 1.0
Rates == 0..2
\* random() lies in [0, 1): in halves, 0.0 or 0.5
Rolls == 0..1
\* uniform(-0.1, 0.1), in steps of 0.1
Deltas == {-1, 1}
\* mean periodic return of each asset (the shared returns dataset)
MeanReturn == <<1, 3>>
Thresholds == {24, 100}
NoError == "none"

VARIABLES
    pc,               \* position of the caller / of run()
    heap,             \* object id -> raw weights (Portfolio._weights)
    population,       \* self._population: sequence of object ids
    threshold,        \* self._threshold
    max_generations,  \* self._max_generations
    mutation_rate,    \* self._mutation_rate (halves)
    crossover_rate,   \* self._crossover_rate (halves)
    elitism,          \* self._elitism
    best,             \* run(): best
    generation,       \* run(): generation
    history,          \* run(): gens, best_fitness_list, mean_fitness_list
    new_population,   \* _reduce_replace(): new_population
    idx,              \* _mutation(): position of the for loop
    results,          \* self.results
    returned,         \* value returned by run()
    err,              \* exception that left run()
    participants,     \* _pick_tournament(): participants
    parents,          \* _pick_tournament(): returned tuple
    read,             \* result of the last read of Portfolio.weights
    old_elite,        \* history variable: elite of the population before reproduction
    max_seen,         \* history variable: highest fitness seen at generation ends
    op,               \* the last direct call of crossover() or mutate() on a Portfolio
    mutated,          \* history variable: objects mutate() was invoked on, this generation
    phases            \* history variable: phases completed, this generation

vars == <<pc, heap, population, threshold, max_generations, mutation_rate,
          crossover_rate, elitism, best, generation, history, new_population,
          idx, results, returned, err, participants, parents, read,
          old_elite, max_seen, op, mutated, phases>>

config == <<threshold, max_generations, mutation_rate, crossover_rate, elitism>>

\* ------------------------------------------------------------- helpers
Range(s) == {s[i] : i \in 1..Len(s)}

Max2(a, b) == IF a >= b THEN a ELSE b

RECURSIVE SumSeq(_)
SumSeq(s) == IF s = <<>> THEN 0 ELSE Head(s) + SumSeq(Tail(s))

Front(s) == SubSeq(s, 1, Len(s) - 1)

Last(s) == s[Len(s)]

\* --------------------------------------------- Portfolio (allocation candidate)
WeightSpace == [Assets -> 0..MaxWeight]

\* the raw weights a Portfolio is constructed with directly: any sign
RawWeightSpace == [Assets -> (-MaxWeight - 1)..MaxWeight]

RawSum(w) == SumSeq(w)

\* WeightsAccessor with the defect of not testing the sum
WeightsAccessorNoCheck(w) ==
    [error |-> NoError, value |-> [a \in Assets |-> <<w[a], RawSum(w)>>]]

\* Portfolio.weights: the normalised mapping, or ValueError on a zero sum.
\* A normalised weight w/s is kept as the exact pair <<w, s>>.
WeightsAccessor(w) ==
    IF RawSum(w) = 0
    THEN [error |-> "ValueError", value |-> <<>>]
    ELSE [error |-> NoError, value |-> [a \in Assets |-> <<w[a], RawSum(w)>>]]

Degenerate(w) == WeightsAccessor(w).error # NoError

\* Portfolio.fitness: a score that is a deterministic function of the
\* normalised weights: the expected return sum(w[a]/s * mu[a]), scaled by
\* 12 to stay in the integers.
PortfolioFitness(w) ==
    (12 * SumSeq([a \in Assets |-> w[a] * MeanReturn[a]])) \div RawSum(w)

\* Crossover with the defect of copying the parents without the splice
CrossoverNoSplice(w1, w2) == <<w1, w2>>

\* Portfolio.crossover: midpoint splice, two new candidates.
Crossover(w1, w2) ==
    LET mid == NAssets \div 2
    IN  << [a \in Assets |-> IF a <= mid THEN w1[a] ELSE w2[a]],
           [a \in Assets |-> IF a <= mid THEN w2[a] ELSE w1[a]] >>

\* MutateResults with the defect of not flooring at zero
MutateResultsNoFloor(w, rate) ==
    { v \in RawWeightSpace :
        \E rolls \in [Assets -> Rolls], ds \in [Assets -> Deltas] :
            v = [a \in Assets |-> IF rolls[a] < rate
                                  THEN w[a] + ds[a]
                                  ELSE w[a]] }

\* Portfolio.mutate(mutation_rate): every raw weight is perturbed, when its
\* own roll is below the rate, by a step in Deltas and floored at zero.
\* Results with a weight above MaxWeight are cut off.
MutateResults(w, rate) ==
    { v \in RawWeightSpace :
        \E rolls \in [Assets -> Rolls], ds \in [Assets -> Deltas] :
            v = [a \in Assets |-> IF rolls[a] < rate
                                  THEN Max2(0, w[a] + ds[a])
                                  ELSE w[a]] }

\* mutate() without an argument: the default rate 0.2 lies strictly between
\* 0 and 1, as does the rate 1 (one half) here
DefaultMutateRate == 1

\* ------------------------------------------------- GeneticAlgorithm helpers
\* self._fitness_key, default lambda x: x.fitness()
FitnessKey(h, o) == PortfolioFitness(h[o])

\* a fitness call on any of these objects raises
Raises(h, objs) == \E o \in objs : Degenerate(h[o])

\* sorted(s, key=fitness, reverse=True): stable, descending
RECURSIVE InsertDesc(_, _, _)
InsertDesc(h, s, x) ==
    IF s = <<>> THEN <<x>>
    ELSE IF FitnessKey(h, Head(s)) >= FitnessKey(h, x)
         THEN <<Head(s)>> \o InsertDesc(h, Tail(s), x)
         ELSE <<x>> \o s

RECURSIVE SortDesc(_, _)
SortDesc(h, s) ==
    IF s = <<>> THEN <<>> ELSE InsertDesc(h, SortDesc(h, Front(s)), Last(s))

\* the same in ascending order (used by PickTournamentAscending only)
SortAsc(h, s) ==
    LET d == SortDesc(h, s) IN [i \in 1..Len(d) |-> d[Len(d) + 1 - i]]

\* MaxBy with the defect of leaving the key out of account
MaxByFirst(h, s) == s[1]

\* max(s, key=fitness): the first element of maximal fitness
MaxBy(h, s) ==
    LET i == CHOOSE i \in 1..Len(s) :
                 /\ \A j \in 1..Len(s) : FitnessKey(h, s[j]) <= FitnessKey(h, s[i])
                 /\ \A j \in 1..(i - 1) : FitnessKey(h, s[j]) < FitnessKey(h, s[i])
    IN  s[i]

MaxFitness(h, s) == FitnessKey(h, MaxBy(h, s))

\* statistics.mean over the population, as the exact pair <<sum, count>>
MeanFitness(h, s) == <<SumSeq([i \in 1..Len(s) |-> FitnessKey(h, s[i])]), Len(s)>>

\* elite_size = max(1, len(self._population) // 10)
EliteSize(n) == Max2(1, n \div EliteDivisor)

\* _apply_elitism(new_population) with self._population = selfpop: both lists
\* are sorted, the elite of selfpop is put before the head of newpop.
ApplyElitism(h, selfpop, newpop) ==
    LET sorted_self == SortDesc(h, selfpop)
        sorted_new  == SortDesc(h, newpop)
        elite_size  == EliteSize(Len(selfpop))
    IN  IF ~elitism
        THEN newpop
        ELSE SubSeq(sorted_self, 1, elite_size)
                 \o SubSeq(sorted_new, 1, Len(selfpop) - elite_size)

\* PickTournament with the defect of sorting without reverse=True
PickTournamentAscending(h, drawn) ==
    LET sorted_participants == SortAsc(h, drawn)
    IN  IF Len(sorted_participants) >= 2
        THEN [error |-> NoError, value |-> SubSeq(sorted_participants, 1, 2)]
        ELSE IF Len(sorted_participants) = 1
             THEN [error |-> NoError,
                   value |-> <<sorted_participants[1], sorted_participants[1]>>]
             ELSE [error |-> "IndexError", value |-> <<>>]

\* _pick_tournament once choices() has drawn `drawn`: the two fittest of the
\* draw, or the only one twice; an empty draw has no element 0.
PickTournament(h, drawn) ==
    LET sorted_participants == SortDesc(h, drawn)
    IN  IF Len(sorted_participants) >= 2
        THEN [error |-> NoError, value |-> SubSeq(sorted_participants, 1, 2)]
        ELSE IF Len(sorted_participants) = 1
             THEN [error |-> NoError,
                   value |-> <<sorted_participants[1], sorted_participants[1]>>]
             ELSE [error |-> "IndexError", value |-> <<>>]

\* Truncate with the defect of never dropping the excess
TruncateNever(new, n) == new

\* if len(new_population) > len(self._population): new_population.pop()
Truncate(new, n) == IF Len(new) > n THEN Front(new) ELSE new

\* ThresholdReached with the defect of a strict comparison
ThresholdReachedStrict(f) == f > threshold

\* if current_best_fitness >= self._threshold: break
ThresholdReached(f) == f >= threshold

\* RangeExhausted with the defect of one generation too many
RangeExhaustedLate == generation > max_generations

\* for generation in range(self._max_generations): the range is used up
RangeExhausted == generation >= max_generations

\* AfterReproduce with the defect of ignoring the elitism flag
AfterReproduceNoElitism == "mutate"

\* if self._elitism: ... _apply_elitism; then _mutation
AfterReproduce == IF elitism THEN "elitism" ELSE "mutate"

\* MutationFires with the defect of an inclusive comparison
MutationFiresInclusive(roll) == roll <= mutation_rate

\* if random() < self._mutation_rate
MutationFires(roll) == roll < mutation_rate

NoResults == [set |-> FALSE, rows |-> <<>>]

NoRead == [obj |-> 0, raw |-> <<>>, result |-> [error |-> NoError, value |-> <<>>],
           after |-> <<>>, mutated |-> FALSE]

NoOp == [name |-> "none", self |-> 0, peer |-> 0, rate |-> 0, before |-> <<>>,
         children |-> <<>>]

\* the exception a fitness call raises on a candidate of zero raw sum
Abort(e) ==
    /\ pc' = "aborted"
    /\ err' = e
    /\ UNCHANGED <<heap, population, config, best, generation, history,
                   new_population, idx, results, returned, participants,
                   parents, read, old_elite, max_seen,
                   op, mutated, phases>>

\* ------------------------------------------------------------ the engine
Init ==
    /\ pc = "new"
    /\ heap = <<>>
    /\ population = <<>>
    /\ threshold = 0
    /\ max_generations = 0
    /\ mutation_rate = 0
    /\ crossover_rate = 0
    /\ elitism = FALSE
    /\ best = 0
    /\ generation = 0
    /\ history = <<>>
    /\ new_population = <<>>
    /\ idx = 0
    /\ results = NoResults
    /\ returned = 0
    /\ err = NoError
    /\ participants = <<>>
    /\ parents = <<>>
    /\ read = NoRead
    /\ old_elite = <<>>
    /\ max_seen = 0
    /\ op = NoOp
    /\ mutated = <<>>
    /\ phases = <<>>

\* GeneticAlgorithm.__init__: the arguments are stored, none is checked
Construct ==
    /\ pc = "new"
    /\ \E n \in 0..MaxPop :
         \E ws \in [1..n -> WeightSpace] :
            /\ heap' = ws
            /\ population' = [i \in 1..n |-> i]
    /\ threshold' \in Thresholds
    /\ max_generations' \in 0..MaxGen
    /\ mutation_rate' \in Rates
    /\ crossover_rate' \in Rates
    /\ elitism' \in BOOLEAN
    /\ pc' = "constructed"
    /\ UNCHANGED <<best, generation, history, new_population, idx, results,
                   returned, err, participants, parents, read, old_elite,
                   max_seen,
                   op, mutated, phases>>

\* run(), line 133 to the loop head
RunStart ==
    /\ pc = "constructed"
    /\ IF population = <<>>
       THEN Abort("ValueError: max() arg is an empty sequence")
       ELSE IF Raises(heap, Range(population))
       THEN Abort("ValueError")
       ELSE /\ best' = MaxBy(heap, population)
            /\ history' = <<>>
            /\ generation' = 0
            /\ max_seen' = MaxFitness(heap, population)
            /\ pc' = "loop"
            /\ UNCHANGED <<heap, population, config, new_population, idx,
                           results, returned, err, participants, parents,
                           read, old_elite,
                   op, mutated, phases>>

\* the elite of a population: its EliteSize fittest members with their state
EliteOf(h, pop) ==
    LET sorted == SortDesc(h, pop)
    IN  [i \in 1..EliteSize(Len(pop)) |-> <<sorted[i], h[sorted[i]]>>]

\* run(), lines 138 to 148: one record of the history, then the threshold test
Record ==
    /\ pc = "loop"
    /\ ~RangeExhausted
    /\ IF Raises(heap, {best} \cup Range(population))
       THEN Abort("ValueError")
       ELSE LET current_best_fitness == FitnessKey(heap, best)
                current_mean_fitness == MeanFitness(heap, population)
            IN  /\ history' = Append(history,
                                 [gen |-> generation,
                                  best_fitness |-> current_best_fitness,
                                  mean_fitness |-> current_mean_fitness])
                /\ IF ThresholdReached(current_best_fitness)
                   THEN /\ pc' = "break"
                        /\ old_elite' = old_elite
                   ELSE /\ pc' = "reproduce"
                        /\ old_elite' = EliteOf(heap, population)
                /\ phases' = <<"record">>
                /\ UNCHANGED <<heap, population, config, best, generation,
                               new_population, idx, results, returned, err,
                               participants, parents, read, max_seen, op,
                               mutated>>

\* run(), lines 159 to 164: after the break or once the range is used up
Return ==
    /\ \/ pc = "break"
       \/ pc = "loop" /\ RangeExhausted
    /\ results' = [set |-> TRUE, rows |-> history]
    /\ returned' = best
    /\ pc' = "done"
    /\ UNCHANGED <<heap, population, config, best, generation, history,
                   new_population, idx, err, participants, parents, read,
                   old_elite, max_seen,
                   op, mutated, phases>>

\* _reduce_replace(): one round of the while loop and, when the round fills
\* the new population, the truncation and the assignment after the loop
ReduceReplaceRound ==
    /\ pc = "reproduce"
    /\ \E draw \in [1..Competitors -> 1..Len(population)], roll \in Rolls :
         LET drawn == [k \in 1..Competitors |-> population[draw[k]]]
         IN  IF Raises(heap, Range(drawn))
             THEN Abort("ValueError")
             ELSE LET picked == PickTournament(heap, drawn).value
                      cross  == roll < crossover_rate
                      added  == IF cross
                                THEN <<Len(heap) + 1, Len(heap) + 2>>
                                ELSE picked
                      grown  == new_population \o added
                  IN  /\ heap' = IF cross
                                 THEN heap \o Crossover(heap[picked[1]],
                                                        heap[picked[2]])
                                 ELSE heap
                      /\ IF Len(grown) < Len(population)
                         THEN /\ new_population' = grown
                              /\ UNCHANGED <<population, pc, idx, phases>>
                         ELSE /\ population' = Truncate(grown, Len(population))
                              /\ new_population' = <<>>
                              /\ pc' = AfterReproduce
                              /\ idx' = IF AfterReproduce = "elitism" THEN 0 ELSE 1
                              /\ phases' = Append(phases, "reproduce")
                      /\ UNCHANGED <<config, best, generation, history,
                                     results, returned, err, participants,
                                     parents, read, old_elite, max_seen, op,
                                     mutated>>

\* run(), lines 151 to 152: self._population = self._apply_elitism(self._population)
Elitism ==
    /\ pc = "elitism"
    /\ IF Raises(heap, Range(population))
       THEN Abort("ValueError")
       ELSE /\ population' = ApplyElitism(heap, population, population)
            /\ pc' = "mutate"
            /\ idx' = 1
            /\ phases' = Append(phases, "elitism")
            /\ UNCHANGED <<heap, config, best, generation, history,
                           new_population, results, returned, err,
                           participants, parents, read, old_elite, max_seen,
                           op, mutated>>

\* _mutation(): one turn of the for loop
MutationStep ==
    /\ pc = "mutate"
    /\ \E roll \in Rolls :
         IF MutationFires(roll)
         THEN /\ \E v \in MutateResults(heap[population[idx]], DefaultMutateRate) :
                    heap' = [heap EXCEPT ![population[idx]] = v]
              /\ mutated' = Append(mutated, population[idx])
         ELSE /\ heap' = heap
              /\ mutated' = mutated
    /\ IF idx < Len(population)
       THEN idx' = idx + 1 /\ pc' = pc /\ phases' = phases
       ELSE idx' = 0 /\ pc' = "best" /\ phases' = Append(phases, "mutate")
    /\ UNCHANGED <<population, config, best, generation, history,
                   new_population, results, returned, err, participants,
                   parents, read, old_elite, max_seen, op>>

\* run(), lines 155 to 157, and the step of the for loop
UpdateBest ==
    /\ pc = "best"
    /\ IF Raises(heap, {best} \cup Range(population))
       THEN Abort("ValueError")
       ELSE LET highest == MaxBy(heap, population)
            IN  /\ best' = IF FitnessKey(heap, highest) > FitnessKey(heap, best)
                           THEN highest
                           ELSE best
                /\ generation' = generation + 1
                /\ max_seen' = Max2(max_seen, MaxFitness(heap, population))
                /\ pc' = "loop"
                /\ mutated' = <<>>
                /\ phases' = Append(phases, "best")
                /\ UNCHANGED <<heap, population, config, history,
                               new_population, idx, results, returned, err,
                               participants, parents, read, old_elite, op>>

Next ==
    \/ Construct
    \/ RunStart
    \/ Record
    \/ Return
    \/ ReduceReplaceRound
    \/ Elitism
    \/ MutationStep
    \/ UpdateBest

Spec == Init /\ [][Next]_vars

\* ------------------------------------- direct calls of _pick_tournament(k)
SelInit ==
    /\ pc = "sel"
    /\ \E n \in 1..MaxPop :
          /\ heap \in [1..n -> WeightSpace]
          /\ population = [i \in 1..n |-> i]
    /\ threshold = 0
    /\ max_generations = 0
    /\ mutation_rate = 0
    /\ crossover_rate = 0
    /\ elitism = FALSE
    /\ best = 0
    /\ generation = 0
    /\ history = <<>>
    /\ new_population = <<>>
    /\ idx = 0
    /\ results = NoResults
    /\ returned = 0
    /\ err = NoError
    /\ participants = <<>>
    /\ parents = <<>>
    /\ read = NoRead
    /\ old_elite = <<>>
    /\ max_seen = 0
    /\ op = NoOp
    /\ mutated = <<>>
    /\ phases = <<>>

\* _pick_tournament(competitors): choices() draws with replacement
PickTournamentCall ==
    /\ pc = "sel"
    /\ \E competitors \in 0..MaxK :
         \E draw \in [1..competitors -> 1..Len(population)] :
            LET drawn == [k \in 1..competitors |-> population[draw[k]]]
            IN  /\ participants' = drawn
                /\ IF Raises(heap, Range(drawn))
                   THEN pc' = "aborted" /\ err' = "ValueError" /\ parents' = parents
                   ELSE LET r == PickTournament(heap, drawn)
                        IN  IF r.error # NoError
                            THEN pc' = "aborted" /\ err' = r.error /\ parents' = parents
                            ELSE pc' = "picked" /\ err' = err /\ parents' = r.value
    /\ UNCHANGED <<heap, population, config, best, generation, history,
                   new_population, idx, results, returned, read, old_elite,
                   max_seen,
                   op, mutated, phases>>

SelNext == PickTournamentCall

SelSpec == SelInit /\ [][SelNext]_vars

\* --------------------------------------------- direct use of a Portfolio
\* `read` and `op` describe the last call made: a call clears the other record
PortfolioInit ==
    /\ pc = "portfolio"
    /\ heap \in [1..NPortfolios -> RawWeightSpace]
    /\ population = <<>>
    /\ threshold = 0
    /\ max_generations = 0
    /\ mutation_rate = 0
    /\ crossover_rate = 0
    /\ elitism = FALSE
    /\ best = 0
    /\ generation = 0
    /\ history = <<>>
    /\ new_population = <<>>
    /\ idx = 0
    /\ results = NoResults
    /\ returned = 0
    /\ err = NoError
    /\ participants = <<>>
    /\ parents = <<>>
    /\ read = NoRead
    /\ old_elite = <<>>
    /\ max_seen = 0
    /\ op = NoOp
    /\ mutated = <<>>
    /\ phases = <<>>

\* child1, child2 = portfolio1.crossover(portfolio2)
PortfolioCrossover ==
    /\ pc \in {"portfolio", "mutated"}
    /\ \E o \in 1..Len(heap), peer \in 1..Len(heap) :
         /\ heap' = heap \o Crossover(heap[o], heap[peer])
         /\ op' = [name |-> "crossover", self |-> o, peer |-> peer, rate |-> 0,
                   before |-> heap,
                   children |-> <<Len(heap) + 1, Len(heap) + 2>>]
    /\ pc' = "crossed"
    /\ read' = NoRead
    /\ UNCHANGED <<population, config, best, generation, history,
                   new_population, idx, results, returned, err, participants,
                   parents, old_elite, max_seen, mutated, phases>>

\* portfolio.mutate(mutation_rate), in place
PortfolioMutate ==
    /\ pc \in {"portfolio", "mutated"}
    /\ \E o \in 1..Len(heap), rate \in Rates :
         /\ \E v \in MutateResults(heap[o], rate) :
                heap' = [heap EXCEPT ![o] = v]
         /\ op' = [name |-> "mutate", self |-> o, peer |-> 0, rate |-> rate,
                   before |-> heap, children |-> <<>>]
    /\ pc' = "mutated"
    /\ read' = NoRead
    /\ UNCHANGED <<population, config, best, generation, history,
                   new_population, idx, results, returned, err, participants,
                   parents, old_elite, max_seen, mutated, phases>>

\* _ = portfolio.weights
PortfolioRead ==
    /\ pc \in {"portfolio", "mutated"}
    /\ \E o \in 1..Len(heap) :
         LET r == WeightsAccessor(heap[o])
         IN  /\ heap' = heap
             /\ read' = [obj |-> o, raw |-> heap[o], result |-> r,
                         after |-> heap'[o], mutated |-> (pc = "mutated")]
             /\ err' = r.error
    /\ op' = NoOp
    /\ UNCHANGED <<pc, population, config, best, generation, history,
                   new_population, idx, results, returned, participants,
                   parents, old_elite, max_seen, mutated, phases>>

PortfolioNext == PortfolioCrossover \/ PortfolioMutate \/ PortfolioRead

PortfolioSpec == PortfolioInit /\ [][PortfolioNext]_vars

\* ===================================================================
\* Claims
\* ===================================================================
Terminal == pc \in {"done", "aborted"}

Stopped == \E i \in 1..Len(history) : history[i].best_fitness >= threshold

\* C1: with elitism enabled, the elite (the max(1, N div 10) fittest) of the
\* population as it stood before a generation's reproduction are all members
\* of the population at the end of that generation, with their state
\* unchanged: the population then holds, for each of them, a candidate in
\* the state that elite candidate had.
C1_EliteSurvivesUnchanged ==
    (pc = "loop" /\ generation >= 1 /\ elitism) =>
        \A i \in 1..Len(old_elite) :
            \E j \in 1..Len(population) :
                heap[population[j]] = old_elite[i][2]

\* C2: best_fitness never decreases from one record of the history to the
\* next.
C2_BestFitnessMonotone ==
    \A i \in 1..(Len(history) - 1) :
        history[i].best_fitness <= history[i + 1].best_fitness

\* C3: when run() returns, the fitness of the returned candidate is at least
\* the fitness any candidate had in the initial population or in the
\* population at the end of any generation.
C3_ReturnsBestSeen ==
    pc = "done" => FitnessKey(heap, returned) >= max_seen

\* C4: the population keeps the size it was constructed with: no step of
\* run() changes its length, a round of reproduction adds exactly two
\* candidates to the new population, which is handed over (cut to size) as
\* soon as it is no shorter than the population.
C4_SizePreserved ==
    [][pc # "new" =>
          /\ Len(population') = Len(population)
          /\ Len(new_population') \in {0, Len(new_population) + 2}
          /\ Len(new_population') < Max2(1, Len(population))]_vars

C4_Witness ==
    /\ pc = "done"
    /\ generation = 2
    /\ Len(population) = 1
    /\ elitism
    /\ Len(heap) > 1

\* C5: a generation that starts stops the run exactly when the best fitness
\* in the current population is at least the threshold; that generation is
\* recorded, and nothing but the return follows: no reproduction, elitism or
\* mutation touches the population or any candidate.
C5_StopsIffThreshold ==
    [][/\ (pc = "loop" /\ ~RangeExhausted /\ pc' # "aborted") =>
            /\ (pc' = "break") <=> (MaxFitness(heap, population) >= threshold)
            /\ pc' \in {"break", "reproduce"}
            /\ Len(history') = Len(history) + 1
            /\ Last(history').gen = generation
       /\ pc = "break" =>
            /\ pc' = "done"
            /\ results'.rows = history
            /\ UNCHANGED <<heap, population, history, best>>
       /\ ~Terminal]_vars

C5_Witness ==
    /\ pc = "done"
    /\ Stopped
    /\ generation >= 1
    /\ generation < max_generations
    /\ Len(history) = generation + 1
    /\ Last(history).best_fitness = threshold

\* the steps run() still has to take, at most
Variant ==
    LET n == Len(population)
        perGen == 2 * n + 4
        left == (max_generations - generation) * perGen
    IN  CASE pc = "new" -> (MaxGen + 1) * (2 * MaxPop + 4) + 4
          [] pc = "constructed" -> (MaxGen + 1) * (2 * MaxPop + 4) + 3
          [] pc = "loop" -> Max2(0, left) + 2
          [] pc = "reproduce" -> left - perGen + 2 + (n - Len(new_population)) + n + 3
          [] pc = "elitism" -> left - perGen + 2 + n + 2
          [] pc = "mutate" -> left - perGen + 2 + (n - idx) + 2
          [] pc = "best" -> left - perGen + 2 + 1
          [] pc = "break" -> 1
          [] OTHER -> 0

\* run() can take a step until it has returned or raised (a round of
\* reproduction needs nothing but a candidate to draw)
NotStuck ==
    CASE pc = "new" -> ENABLED Construct
      [] pc = "constructed" -> ENABLED RunStart
      [] pc = "loop" -> ENABLED Record \/ ENABLED Return
      [] pc = "break" -> ENABLED Return
      [] pc = "reproduce" -> [1..Competitors -> 1..Len(population)] # {}
      [] pc = "elitism" -> ENABLED Elitism
      [] pc = "mutate" -> ENABLED MutationStep
      [] pc = "best" -> ENABLED UpdateBest
      [] OTHER -> Terminal

\* C6: a run in which no recorded best reaches the threshold, and no
\* candidate raises, ends after exactly max_generations generations with the
\* records 0, 1, ..., max_generations - 1 in that order; and every run ends:
\* each step lowers a natural-number bound on the steps left, and a step is
\* possible until run() has returned or raised.
C6_RunsAllGenerations ==
    /\ [](/\ (pc = "done" /\ ~Stopped) =>
               /\ generation = max_generations
               /\ Len(history) = max_generations
               /\ \A i \in 1..Len(history) : history[i].gen = i - 1
               /\ results = [set |-> TRUE, rows |-> history]
          /\ Variant >= 0
          /\ NotStuck)
    /\ [][Variant' < Variant]_vars

C6_Witness ==
    /\ pc = "done"
    /\ ~Stopped
    /\ max_generations = 2
    /\ Len(history) = 2
    /\ Len(population) = 2

\* C7: when a candidate operation raises during a generation, run() aborts
\* with that error and the history records appended so far are available to
\* the caller (in self.results).
C7_PartialHistoryAvailable ==
    (pc = "aborted" /\ history # <<>>) =>
        /\ err # NoError
        /\ results = [set |-> TRUE, rows |-> history]

\* C8: an engine is never constructed over an empty population: the
\* constructor rejects it with InvalidConfiguration, so run() is never
\* entered with one.
C8_EmptyPopulationRejected ==
    (pc # "new" /\ population = <<>>) =>
        /\ err = "InvalidConfiguration"
        /\ pc = "rejected"

\* the pair pr is made of the two fittest entries of the draw, fitter first
TopTwo(h, drawn, pr) ==
    \E i, j \in 1..Len(drawn) :
        /\ i # j
        /\ pr = <<drawn[i], drawn[j]>>
        /\ FitnessKey(h, pr[1]) >= FitnessKey(h, pr[2])
        /\ \A m \in 1..Len(drawn) \ {i, j} :
               FitnessKey(h, drawn[m]) <= FitnessKey(h, pr[2])

C10_ZeroSumRaises ==
    (read.obj # 0 /\ RawSum(read.raw) = 0) =>
        /\ read.result.error = "ValueError"
        /\ read.result.value = <<>>
        /\ err = "ValueError"
        /\ read.after = read.raw

C10_Witness ==
    /\ read.obj # 0
    /\ read.mutated
    /\ RawSum(read.raw) = 0
    /\ read.result.error = "ValueError"

\* C11: crossover(self, peer) of two candidates over the same n assets
\* returns two new candidates: child A has self's raw weight for every asset
\* at enumeration index < floor(n/2) and peer's for every asset at index
\* >= floor(n/2), child B has the complementary split; both children have
\* exactly the parents' assets, and neither parent's weights are modified.
C11_CrossoverMidpointSplice ==
    op.name = "crossover" =>
        LET mid      == NAssets \div 2
            selfRaw  == op.before[op.self]
            peerRaw  == op.before[op.peer]
            childA   == heap[op.children[1]]
            childB   == heap[op.children[2]]
        IN  /\ Len(op.children) = 2
            /\ op.children[1] # op.children[2]
            /\ \A c \in Range(op.children) : c \notin DOMAIN op.before
            /\ DOMAIN childA = Assets
            /\ DOMAIN childB = Assets
            /\ \A a \in Assets :
                   IF a - 1 < mid
                   THEN childA[a] = selfRaw[a] /\ childB[a] = peerRaw[a]
                   ELSE childA[a] = peerRaw[a] /\ childB[a] = selfRaw[a]
            /\ \A o \in DOMAIN op.before : heap[o] = op.before[o]

C11_Witness ==
    /\ op.name = "crossover"
    /\ pc = "crossed"
    /\ op.self # op.peer
    /\ \A a \in Assets : op.before[op.self][a] # op.before[op.peer][a]
    /\ \A c \in Range(op.children) :
           heap[c] \notin {op.before[op.self], op.before[op.peer]}

\* the distance between two raw weights
Dist(x, y) == IF x >= y THEN x - y ELSE y - x

\* C12: mutate(rate=1.0) changes every raw weight, each by an amount within
\* [-0.1, 0.1], and leaves no raw weight negative, for every starting weight
\* mapping the candidate accepts (weights of zero and negative weights
\* included).
C12_MutateChangesEveryWeight ==
    (op.name = "mutate" /\ op.rate = 2) =>
        \A a \in Assets :
            LET before == op.before[op.self][a]
                after  == heap[op.self][a]
            IN  /\ after # before
                /\ Dist(after, before) <= 1
                /\ after >= 0

\* C12 as amended: mutate(rate=1.0) perturbs every raw weight and leaves none
\* negative; a weight that starts strictly positive changes, by an amount
\* within [-0.1, 0.1]; a weight that starts at zero stays at zero (its
\* perturbation was floored) or rises by at most 0.1; a negative weight
\* becomes max(0, w + d) for a d in [-0.1, 0.1], which moves it by more than
\* 0.1 when it started below -0.2.
C12_MutatePerturbsAndFloors ==
    (op.name = "mutate" /\ op.rate = 2) =>
        \A a \in Assets :
            LET before == op.before[op.self][a]
                after  == heap[op.self][a]
            IN  /\ after >= 0
                /\ before > 0 => (after # before /\ Dist(after, before) <= 1)
                /\ before = 0 => after \in {0, 1}
                /\ before < 0 => \E d \in Deltas : after = Max2(0, before + d)
                /\ \A o \in DOMAIN heap \ {op.self} : heap[o] = op.before[o]

C12_Witness ==
    /\ op.name = "mutate"
    /\ op.rate = 2
    /\ \E a, b \in Assets :
          /\ op.before[op.self][a] = 0
          /\ heap[op.self][a] = 0
          /\ op.before[op.self][b] < -1
          /\ heap[op.self][b] = 0

\* the number of entries of s equal to x
Count(s, x) == Cardinality({i \in 1..Len(s) : s[i] = x})

\* C13: in each generation every candidate undergoes exactly one mutation
\* trial, so that mutate() is invoked on any one candidate object at most
\* once per generation, also when the parents were carried forward without
\* crossover: no object occurs twice among those mutate() was invoked on
\* since the generation began.
C13_OneMutationTrialPerCandidate ==
    \A o \in Range(mutated) : Count(mutated, o) <= 1

\* the phases of a generation that does not stop on the threshold
FullGeneration ==
    IF elitism
    THEN <<"record", "reproduce", "elitism", "mutate", "best">>
    ELSE <<"record", "reproduce", "mutate", "best">>

IsPrefix(p, q) == Len(p) <= Len(q) /\ SubSeq(q, 1, Len(p)) = p

\* C14: within every generation that does not stop on the threshold the
\* phases occur in this order: the history record is appended, reproduction
\* replaces the population, elitism is applied (when enabled), mutation is
\* applied, the running best is recomputed; none is skipped or repeated
\* except elitism when disabled. The phases completed so far are always a
\* prefix of that order and make up the whole of it when the next generation
\* starts; and each effect belongs to its phase: the history grows only in
\* the record, the population is assigned only by reproduction and elitism,
\* a candidate changes only during mutation, the running best and the
\* generation index only change in the recomputation.
C14_PhaseOrder ==
    /\ [](/\ IsPrefix(phases, FullGeneration)
          /\ (pc = "loop" /\ generation >= 1) => phases = FullGeneration
          /\ (pc = "done" /\ generation >= 1 /\ ~Stopped) => phases = FullGeneration)
    /\ [][pc \notin {"new", "constructed"} =>
            /\ history' # history =>
                  /\ phases' = <<"record">>
                  /\ history' = Append(history, Last(history'))
            /\ population' # population =>
                  /\ phases' # phases
                  /\ Last(phases') \in {"reproduce", "elitism"}
            /\ (phases' # phases /\ Last(phases') = "elitism") =>
                  /\ elitism
                  /\ Last(phases) = "reproduce"
            /\ (\E o \in DOMAIN heap : heap'[o] # heap[o]) =>
                  /\ pc = "mutate"
                  /\ Last(phases) \in {"reproduce", "elitism"}
            /\ (best' # best \/ generation' # generation) =>
                  /\ phases' = Append(phases, "best")
                  /\ Last(phases) = "mutate"
                  /\ generation' = generation + 1]_vars

C14_Witness ==
    /\ pc = "done"
    /\ ~Stopped
    /\ generation = 2
    /\ elitism
    /\ phases = <<"record", "reproduce", "elitism", "mutate", "best">>
    /\ best \notin Range(population)

\* C15: at the start of every generation and when run() returns, the
\* current fitness of the running best is at least the current fitness of
\* every candidate of the current population; and the running best is
\* replaced only by a candidate of the population that is strictly fitter
\* than it (and than which no candidate of the population is fitter).
C15_BestDominatesPopulation ==
    /\ []((pc \in {"loop", "break", "done"}) =>
             /\ ~Raises(heap, {best} \cup Range(population))
             /\ \A i \in 1..Len(population) :
                    FitnessKey(heap, best) >= FitnessKey(heap, population[i]))
    /\ [][(pc = "best" /\ best' # best) =>
             /\ best' \in Range(population)
             /\ FitnessKey(heap, best') > FitnessKey(heap, best)
             /\ FitnessKey(heap, best') = MaxFitness(heap, population)]_vars
    /\ [][(pc \notin {"constructed", "best"}) => best' = best]_vars

C15_Witness ==
    /\ pc = "done"
    /\ generation = 2
    /\ best \notin Range(population)
    /\ best > Len(population)
    /\ \E i \in 1..Len(population) :
           FitnessKey(heap, population[i]) < FitnessKey(heap, best)

\* C16: when mutation_rate = 0, run() never invokes mutate(), so no candidate
\* of any population changes state during the run, the recorded best_fitness
\* never decreases, and the fitness of the returned candidate equals the
\* maximum fitness over the initial population and every later population
\* (elitism and the mutation pass leave the maximum of the population they
\* are given as it is).
C16_NoMutationAtRateZero ==
    /\ []((pc # "new" /\ mutation_rate = 0) =>
             /\ mutated = <<>>
             /\ \A i \in 1..(Len(history) - 1) :
                    history[i].best_fitness <= history[i + 1].best_fitness
             /\ pc = "done" =>
                    /\ FitnessKey(heap, returned) = max_seen
                    /\ FitnessKey(heap, returned) >= MaxFitness(heap, population))
    /\ [][(pc # "new" /\ mutation_rate = 0) =>
             /\ \A o \in DOMAIN heap : heap'[o] = heap[o]
             /\ (pc \in {"elitism", "mutate", "best"} /\ pc' # "aborted"
                    /\ ~Raises(heap, Range(population))) =>
                    MaxFitness(heap', population') = MaxFitness(heap, population)]_vars

C16_Witness ==
    /\ pc = "done"
    /\ mutation_rate = 0
    /\ generation = 2
    /\ Len(history) = 2
    /\ Len(heap) > Len(population)
    /\ returned \notin Range(population)
    /\ MaxFitness(heap, population) < FitnessKey(heap, returned)
    /\ phases[Len(phases) - 1] = "mutate"

====
